---- MODULE Spec2Model ----
(***************************************************************************)
(* PyNS Acoustic Survey Explorer (src/PyNS_GUI_app.py): the Streamlit      *)
(* script as a state machine.  One script run ("render") is the sequence   *)
(* Rerun (sidebar), TmpCreate/LogConstruct per uploaded file, BuildSurvey, *)
(* RenderTabs.  st.session_state (apply_agg, period_last) is the only      *)
(* state that survives from one run to the next.  spectra_to_rows is a     *)
(* pure operator, used by RenderTabs and exercised on its own by           *)
(* SpecReshape.                                                            *)
(***************************************************************************)
EXTENDS Integers, Sequences, FiniteSets, TLC

\* ------------------------------------------------------------------ bounds
MaxFiles == 2
MaxCols == 4
MaxRows == 2
MaxBands == 2

\* ------------------------------------------------------- program constants
DefaultIntPeriod == 15
DefaultUnitIndex == 1

VARIABLES
    apply_agg,      \* st.session_state["apply_agg"]
    period_last,    \* st.session_state["period_last"]
    files,          \* st.file_uploader value of the current run
    int_period,     \* st.number_input value
    period_select,  \* st.selectbox value
    apply_agg_btn,  \* st.button value
    period,         \* the period string of the current run ("" before line 55)
    pc,             \* position of the script
    i,              \* index of the upload the ingestion loop is at
    tmpfiles,       \* temporary files on disk (the path of upload k is k)
    logs,           \* dict name -> Log, in insertion order
    errors,         \* st.error messages of the ingestion loop
    survey,         \* summary_df, leq_spec_df, lmax_spec_df, summary_error, survey logs
    ui_tabs,        \* labels handed to st.tabs
    summary_view,   \* what the Summary tab shows
    tab_out,        \* what each iteration of the position loop shows
    hist,           \* history: the last period string formed, whether apply was
                    \* pressed since it last changed, whether the current run
                    \* changed it, and apply_agg as the current run found it
    df,             \* spectra_to_rows on its own: the table
    pos_names,      \* ... the position names
    out1,           \* ... spectra_to_rows(df, pos_names)
    out2,           \* ... spectra_to_rows(out1, pos_names)
    rpc             \* ... how often it was applied

appvars == <<apply_agg, period_last, files, int_period, period_select,
             apply_agg_btn, period, pc, i, tmpfiles, logs, errors, survey,
             ui_tabs, summary_view, tab_out, hist>>
rvars == <<df, pos_names, out1, out2, rpc>>
vars == <<appvars, rvars>>

\* ------------------------------------------------------------- helpers
Range(s) == {s[k] : k \in 1..Len(s)}

Min(a, b) == IF a <= b THEN a ELSE b

None == [kind |-> "none"]

\* ------------------------------------------------------- sidebar (29-65)
UnitOptions == <<"second(s)", "minute(s)", "hour(s)">>

DefaultUnit == UnitOptions[DefaultUnitIndex + 1]

IntPeriods == {DefaultIntPeriod, 30}

\* suffix_map.get(period_select, '')
SuffixMap(u) ==
    CASE u = "second(s)" -> "s"
      [] u = "minute(s)" -> "min"
      [] u = "hour(s)" -> "h"
      [] OTHER -> ""

\* period = f"{int_period}{suffix_map.get(period_select, '')}"
PeriodString(n, u) == ToString(n) \o SuffixMap(u)

SidebarState_KeepLast(agg, last, p, btn) ==
    LET reset == IF last # p THEN FALSE ELSE agg
    IN  [apply_agg |-> IF btn THEN TRUE ELSE reset, period_last |-> last]

SidebarState_NoReset(agg, last, p, btn) ==
    [apply_agg |-> IF btn THEN TRUE ELSE agg, period_last |-> p]

SidebarState_ButtonOnly(agg, last, p, btn) ==
    [apply_agg |-> btn, period_last |-> p]

\* lines 57-65: the reset on a changed period string, then the button
SidebarState(agg, last, p, btn) ==
    LET reset == IF last # p THEN FALSE ELSE agg
        stored == IF last # p THEN p ELSE last
    IN  [apply_agg |-> IF btn THEN TRUE ELSE reset, period_last |-> stored]

\* ------------------------------------------------------ uploads and dict
FileNames == {"a.csv", "b.csv"}

\* an upload: its display name, and whether PyNS.Log accepts its content
UploadedFile == [name : FileNames, ok : BOOLEAN]

FileSets == UNION {[1..n -> UploadedFile] : n \in 0..MaxFiles}

NoLog == 0

DictHas(d, n) == \E k \in 1..Len(d) : d[k].name = n

\* logs.get(name)
DictGet(d, n) ==
    IF DictHas(d, n) THEN d[CHOOSE k \in 1..Len(d) : d[k].name = n].log ELSE NoLog

\* logs[name] = v: an existing key keeps its place
DictSet(d, n, v) ==
    IF DictHas(d, n)
    THEN [k \in 1..Len(d) |-> IF d[k].name = n THEN [name |-> n, log |-> v] ELSE d[k]]
    ELSE Append(d, [name |-> n, log |-> v])

\* list(logs.keys())
DictKeys(d) == [k \in 1..Len(d) |-> d[k].name]

LogsAfter_StoreAlways(d, f, idx) == DictSet(d, f.name, idx)

\* lines 75-76: the Log of upload idx is stored under its name unless Log raises
LogsAfter(d, f, idx) == IF f.ok THEN DictSet(d, f.name, idx) ELSE d

\* lines 77-78
ErrorsAfter(errs, f) ==
    IF f.ok THEN errs ELSE Append(errs, [kind |-> "load_failed", name |-> f.name])

TmpAfter_NoUnlink(tmp, path) == tmp

\* lines 79-80: finally: os.unlink(path)
TmpAfter(tmp, path) == tmp \ {path}

\* ------------------------------------------------ spectra tables (107-130)
\* A table: kind "flat" (single-level columns, each a string) or "multi"
\* (two-level columns, each <<outer, band>>), the index name ("" for None),
\* the index labels and the rows of cells.
OctaveBands == <<63, 125, 250, 500, 1000, 2000, 4000, 8000>>

PeriodLabels == <<"Daytime", "Night-time", "Evening", "Morning">>

IndexNames == {"", "Period", "Position", "A"}

\* the cell of row r and column c, distinct for distinct places
Cell(r, c) == 10 * r + c

\* str(b) of a band label
Str(b) == ToString(b)

FlatTable(nc, nr, withA, iname) ==
    LET bandcols == [c \in 1..nc |-> Str(OctaveBands[c])]
        cols == IF withA THEN <<"A">> \o bandcols ELSE bandcols
    IN  [kind |-> "flat", cols |-> cols, iname |-> iname,
         index |-> SubSeq(PeriodLabels, 1, nr),
         data |-> [r \in 1..nr |-> [c \in 1..Len(cols) |-> Cell(r, c)]]]

\* nb bands repeated per position, position-major, nc columns in all
MultiTable(nb, nc, nr, iname) ==
    [kind |-> "multi",
     cols |-> [c \in 1..nc |-> <<"P" \o ToString(((c - 1) \div nb) + 1),
                                 OctaveBands[((c - 1) % nb) + 1]>>],
     iname |-> iname,
     index |-> SubSeq(PeriodLabels, 1, nr),
     data |-> [r \in 1..nr |-> [c \in 1..nc |-> Cell(r, c)]]]

FlatTables ==
    {FlatTable(nc, nr, a, n) : nc \in 0..Min(MaxCols, Len(OctaveBands)),
                               nr \in 0..Min(MaxRows, Len(PeriodLabels)),
                               a \in BOOLEAN, n \in IndexNames}

MultiTables ==
    UNION {{MultiTable(nb, nc, nr, n) : nc \in nb..MaxCols,
                                        nr \in 0..Min(MaxRows, Len(PeriodLabels)),
                                        n \in IndexNames}
           : nb \in 1..Min(MaxBands, Len(OctaveBands))}

PosLists == UNION {[1..n -> FileNames] : n \in 0..MaxFiles}

Raised == [kind |-> "raise"]

\* df.index.name or "index"
IndexKey(t) == IF t.iname # "" THEN t.iname ELSE "index"

\* df.reset_index(): the index becomes the first column, the rows get a RangeIndex;
\* pandas refuses a label that is already a column
ResetIndex(t) ==
    LET label == IF t.iname # "" THEN t.iname
                 ELSE IF "index" \in Range(t.cols) THEN "level_0" ELSE "index"
    IN  IF label \in Range(t.cols) THEN Raised
        ELSE [kind |-> "flat", cols |-> <<label>> \o t.cols, iname |-> "",
              index |-> [r \in 1..Len(t.index) |-> r - 1],
              data |-> [r \in 1..Len(t.data) |-> <<t.index[r]>> \o t.data[r]]]

\* .rename(columns={old: new})
Rename(t, old, new) ==
    IF t.kind = "raise" THEN t
    ELSE [t EXCEPT !.cols = [c \in 1..Len(t.cols) |->
                                IF t.cols[c] = old THEN new ELSE t.cols[c]]]

\* if "Position" not in columns: insert(0, "Position", pos)
InsertPosition(t, pos) ==
    IF t.kind = "raise" \/ "Position" \in Range(t.cols) THEN t
    ELSE [t EXCEPT !.cols = <<"Position">> \o t.cols,
                   !.data = [r \in 1..Len(t.data) |-> <<pos>> \o t.data[r]]]

\* lines 110-114
ReshapeFlat(t, pn) ==
    InsertPosition(Rename(ResetIndex(t), IndexKey(t), "Period"),
                   IF Len(pn) > 0 THEN pn[1] ELSE "Pos1")

\* line 117: the first B inner labels, B the number of distinct inner labels
Bands(t) ==
    LET inner == [c \in 1..Len(t.cols) |-> t.cols[c][2]]
    IN  SubSeq(inner, 1, Cardinality(Range(inner)))

BlockCount_NoBreak(t, pn) == Len(pn)

\* lines 120-123: positions are taken in order until one's block would end
\* past the last column
BlockCount(t, pn) ==
    LET B == Len(Bands(t))
    IN  Cardinality({k \in 1..Len(pn) : k * B <= Len(t.cols)})

\* line 121: start of the k-th block (k from 1), as a 0-based column offset
BlockStart(k, B) == (k - 1) * B

\* lines 124-128: the k-th block (k from 1)
Block(t, pn, k) ==
    LET bands == Bands(t)
        B == Len(bands)
        start == BlockStart(k, B)
        sub == [kind |-> "flat",
                cols |-> [c \in 1..B |-> Str(bands[c])],
                iname |-> t.iname,
                index |-> t.index,
                data |-> [r \in 1..Len(t.data) |->
                             [c \in 1..B |-> t.data[r][start + c]]]]
    IN  \* a slice shorter than the band list cannot take its labels (ValueError)
        IF start + B > Len(t.cols) THEN Raised
        ELSE InsertPosition(Rename(ResetIndex(sub), IndexKey(t), "Period"), pn[k])

RECURSIVE ConcatRows(_, _)
ConcatRows(blocks, k) ==
    IF k > Len(blocks) THEN <<>> ELSE blocks[k].data \o ConcatRows(blocks, k + 1)

\* line 130: pd.concat(blocks, ignore_index=True); no blocks is a ValueError
Concat(blocks) ==
    IF Len(blocks) = 0 \/ \E k \in 1..Len(blocks) : blocks[k].kind = "raise"
    THEN Raised
    ELSE LET rows == ConcatRows(blocks, 1)
         IN  [kind |-> "flat", cols |-> blocks[1].cols, iname |-> "",
              index |-> [r \in 1..Len(rows) |-> r - 1], data |-> rows]

\* lines 116-130
ReshapeMulti(t, pn) ==
    Concat([k \in 1..BlockCount(t, pn) |-> Block(t, pn, k)])

\* spectra_to_rows(df, pos_names), lines 107-130
SpectraToRows(t, pn) ==
    IF t = None THEN None
    ELSE IF t.kind # "multi" THEN ReshapeFlat(t, pn)
    ELSE ReshapeMulti(t, pn)

\* ------------------------------------------------------- survey (82-101)
NoLogsMsg == "No valid logs loaded."

SummaryTable == [kind |-> "summary"]

\* str(err) of the exception a survey step raises
ErrMsg(step) == "error in " \o step

SurveySteps == {"Survey", "add_log", "resi_summary", "typical_leq_spectra", "lmax_spectra"}

\* what the engine's accessors may return in a run of the app
SpectraSamples ==
    {FlatTable(0, 1, TRUE, ""), MultiTable(1, 2, 1, ""), FlatTable(0, 1, TRUE, "A")}

NoSurvey ==
    [summary_df |-> None, leq_spec_df |-> None, lmax_spec_df |-> None,
     summary_error |-> "", built |-> FALSE, logs |-> <<>>]

\* lines 83-101.  api: "add_log" (callable), "_logs" (the attribute only) or "none";
\* raise_at: the step that raises, or "none"; k: the add_log call that raises;
\* leq, lmax: what the two spectra accessors return (None when the engine has none).
\* Each name is bound as its own statement returns, so what was bound before
\* the raising step stays bound.
SurveyOutcome(d, api, raise_at, k, leq, lmax) ==
    IF Len(d) = 0 THEN [NoSurvey EXCEPT !.summary_error = NoLogsMsg]
    ELSE
    LET added == IF api = "add_log"
                 THEN (IF raise_at = "add_log" THEN SubSeq(d, 1, k - 1) ELSE d)
                 ELSE IF api = "_logs" THEN d ELSE <<>>
        s0 == NoSurvey
        s1 == IF raise_at = "Survey" THEN s0 ELSE [s0 EXCEPT !.built = TRUE, !.logs = added]
        s2 == IF raise_at \in {"Survey", "add_log", "resi_summary"} THEN s1
              ELSE [s1 EXCEPT !.summary_df = SummaryTable]
        s3 == IF raise_at \in {"Survey", "add_log", "resi_summary", "typical_leq_spectra"}
              THEN s2 ELSE [s2 EXCEPT !.leq_spec_df = leq]
        s4 == IF raise_at # "none" THEN s3 ELSE [s3 EXCEPT !.lmax_spec_df = lmax]
    IN  IF raise_at # "none" THEN [s4 EXCEPT !.summary_error = ErrMsg(raise_at)] ELSE s4

\* ------------------------------------------------- Summary tab (135-187)
\* lines 155-178: one trace per row of tidy whose Position is a known position
TraceCount(tidy, pl) ==
    LET pcol == CHOOSE c \in 1..Len(tidy.cols) : tidy.cols[c] = "Position"
    IN  Cardinality({<<k, r>> \in (1..Len(pl)) \X (1..Len(tidy.data)) :
                        tidy.data[r][pcol] = pl[k]})

\* lines 148-187 for one (title, df_data)
SpectraChart(title, t, pl) ==
    LET tidy == SpectraToRows(t, pl)
    IN  IF tidy = None THEN <<>>
        ELSE IF tidy.kind = "raise" THEN <<[title |-> title, kind |-> "raise", traces |-> 0]>>
        ELSE IF Range(tidy.cols) \ {"Position", "Period", "A"} # {}
        THEN <<[title |-> title, kind |-> "chart", traces |-> TraceCount(tidy, pl)]>>
        ELSE <<[title |-> title, kind |-> "warning", traces |-> 0]>>

\* lines 136-187
SummaryView(sv, pl) ==
    LET first == SpectraChart("Typical Leq Spectra", sv.leq_spec_df, pl)
        stop == first # <<>> /\ first[1].kind = "raise"
    IN  [table |-> sv.summary_df # None,
         warning |-> IF sv.summary_df # None THEN ""
                     ELSE "Summary unavailable: " \o sv.summary_error,
         \* an exception of spectra_to_rows (line 148) is not caught: the loop
         \* over the two tables stops at the table that raises
         charts |-> IF stop THEN first
                    ELSE first \o SpectraChart("Lmax Spectra", sv.lmax_spec_df, pl)]

\* the Summary tab ended in an uncaught exception of spectra_to_rows
SummaryRaised(v) == \E c \in 1..Len(v.charts) : v.charts[c].kind = "raise"

\* ----------------------------------------------- position tabs (189-328)
\* column headers of a Log's table once its time index is the "Timestamp" column
FullHeader == <<<<"Timestamp", "">>, <<"Leq", "A">>, <<"L90", "A">>, <<"Lmax", "A">>>>

PartialHeader == <<<<"Timestamp", "">>, <<"Leq", "A">>>>

\* what log.as_interval(t=period) or log._master gives: a header, or an exception
TabOutcomes == {"raise", "full", "partial"}

HeaderOf(oc) == IF oc = "full" THEN FullHeader ELSE PartialHeader

\* lines 223-226: f"{lvl0} {lvl1}".strip()
FlattenCol(c) ==
    IF c[2] = "" THEN c[1] ELSE IF c[1] = "" THEN c[2] ELSE c[1] \o " " \o c[2]

RequiredCols == {"Leq A", "L90 A", "Lmax A"}

Integrated == "Integrated Survey Data"

RawData == "Raw Survey Data"

\* line 190: zip(ui_tabs[1:], files) pairs the k-th position tab with the k-th upload
TabFile(fs, pl, k) == fs[k]

\* lines 191-328 for the k-th pair of the zip
PositionTab(fs, d, pl, agg, p, k, oc) ==
    LET uf == TabFile(fs, pl, k)
        log == DictGet(d, uf.name)
        base == [label |-> pl[k], uf |-> uf.name, log |-> log, view |-> "notfound",
                 subheader |-> "", t |-> "", t_history |-> FALSE, t_L90 |-> FALSE,
                 table |-> FALSE, warnings |-> 0]
        cols == {FlattenCol(HeaderOf(oc)[c]) : c \in 1..Len(HeaderOf(oc))}
        has == RequiredCols \subseteq cols
    IN  IF log = NoLog THEN base
        ELSE IF oc = "raise"
        THEN [base EXCEPT !.view = IF agg THEN "agg_error" ELSE "raw_error",
                          !.t = IF agg THEN p ELSE ""]
        ELSE [base EXCEPT !.view = "shown",
                          !.subheader = IF agg THEN Integrated ELSE RawData,
                          !.t = IF agg THEN p ELSE "",
                          !.t_history = has, !.t_L90 = has, !.table = TRUE,
                          !.warnings = IF has THEN 0 ELSE 2]

NoSummaryView == [table |-> FALSE, warning |-> "", charts |-> <<>>]

\* ------------------------------------------------------------------ Init
AppInit ==
    /\ apply_agg = FALSE
    /\ period_last = ""
    /\ files = <<>>
    /\ int_period = DefaultIntPeriod
    /\ period_select = DefaultUnit
    /\ apply_agg_btn = FALSE
    /\ period = ""
    /\ pc = "start"
    /\ i = 1
    /\ tmpfiles = {}
    /\ logs = <<>>
    /\ errors = <<>>
    /\ survey = NoSurvey
    /\ ui_tabs = <<>>
    /\ summary_view = NoSummaryView
    /\ tab_out = <<>>
    /\ hist = [period |-> "", pressed |-> FALSE, changed |-> FALSE, was_agg |-> FALSE]

RInit ==
    /\ df = None
    /\ pos_names = <<>>
    /\ out1 = None
    /\ out2 = None
    /\ rpc = "off"

Init == AppInit /\ RInit

\* ---------------------------------------------------------------- actions
\* A script run starts (lines 23-65).  The period widgets and the button exist
\* only after a run that got past st.stop(); before that they hold their defaults.
Rerun ==
    /\ pc \in {"start", "stopped", "idle"}
    /\ \E fs \in FileSets, n \in IntPeriods, u \in Range(UnitOptions), b \in BOOLEAN :
        /\ (pc # "idle" \/ fs = <<>>) =>
               (n = DefaultIntPeriod /\ u = DefaultUnit /\ b = FALSE)
        /\ files' = fs
        /\ int_period' = n
        /\ period_select' = u
        /\ apply_agg_btn' = b
        /\ IF fs = <<>>
           THEN \* if not files: st.stop()
                /\ pc' = "stopped"
                /\ period' = ""
                /\ UNCHANGED <<apply_agg, period_last, hist>>
           ELSE LET p == PeriodString(n, u)
                    s == SidebarState(apply_agg, period_last, p, b)
                IN  /\ pc' = "tmp"
                    /\ period' = p
                    /\ apply_agg' = s.apply_agg
                    /\ period_last' = s.period_last
                    /\ hist' = [period |-> p,
                                pressed |-> IF hist.period # p THEN b
                                            ELSE (hist.pressed \/ b),
                                changed |-> hist.period # p,
                                was_agg |-> apply_agg]
    /\ i' = 1
    /\ tmpfiles' = {}
    /\ logs' = <<>>
    /\ errors' = <<>>
    /\ survey' = NoSurvey
    /\ ui_tabs' = <<>>
    /\ summary_view' = NoSummaryView
    /\ tab_out' = <<>>
    /\ UNCHANGED rvars

\* lines 72-74: the upload's bytes go to a temporary file kept on close
TmpCreate ==
    /\ pc = "tmp"
    /\ tmpfiles' = tmpfiles \cup {i}
    /\ pc' = "construct"
    /\ UNCHANGED <<apply_agg, period_last, files, int_period, period_select,
                   apply_agg_btn, period, i, logs, errors, survey, ui_tabs,
                   summary_view, tab_out, hist>>
    /\ UNCHANGED rvars

\* lines 75-80: PyNS.Log(path) in try / except Exception / finally
LogConstruct ==
    /\ pc = "construct"
    /\ logs' = LogsAfter(logs, files[i], i)
    /\ errors' = ErrorsAfter(errors, files[i])
    /\ tmpfiles' = TmpAfter(tmpfiles, i)
    /\ i' = i + 1
    /\ pc' = IF i + 1 > Len(files) THEN "survey" ELSE "tmp"
    /\ UNCHANGED <<apply_agg, period_last, files, int_period, period_select,
                   apply_agg_btn, period, survey, ui_tabs, summary_view,
                   tab_out, hist>>
    /\ UNCHANGED rvars

\* lines 82-104: the survey, its three tables, pos_list.  A step the engine
\* lacks (add_log, an accessor replaced by lambda: None) cannot be the one that raises.
BuildSurvey ==
    /\ pc = "survey"
    /\ \E api \in {"add_log", "_logs", "none"}, raise_at \in SurveySteps \cup {"none"},
          k \in 1..MaxFiles,
          leq \in SpectraSamples \cup {None}, lmax \in SpectraSamples \cup {None} :
        /\ raise_at = "add_log" => (api = "add_log" /\ k <= Len(logs))
        /\ raise_at # "add_log" => k = 1
        /\ raise_at = "typical_leq_spectra" => leq # None
        /\ raise_at = "lmax_spectra" => lmax # None
        /\ survey' = SurveyOutcome(logs, api, raise_at, k, leq, lmax)
    /\ pc' = "tabs"
    /\ UNCHANGED <<apply_agg, period_last, files, int_period, period_select,
                   apply_agg_btn, period, i, tmpfiles, logs, errors, ui_tabs,
                   summary_view, tab_out, hist>>
    /\ UNCHANGED rvars

\* lines 132-328: st.tabs, the Summary tab, the position loop; the run ends at
\* line 148 when spectra_to_rows raises
RenderTabs ==
    /\ pc = "tabs"
    /\ LET pos_list == DictKeys(logs)
           n == Min(Len(pos_list), Len(files))
           view == SummaryView(survey, pos_list)
       IN  /\ ui_tabs' = <<"Summary">> \o pos_list
           /\ summary_view' = view
           /\ IF SummaryRaised(view)
              THEN \* the exception leaves the script: no position tab is run
                   /\ tab_out' = <<>>
                   /\ pc' = "crashed"
              ELSE /\ \E oc \in [1..n -> TabOutcomes] :
                         tab_out' = [k \in 1..n |->
                                        PositionTab(files, logs, pos_list, apply_agg,
                                                    period, k, oc[k])]
                   /\ pc' = "done"
    /\ UNCHANGED <<apply_agg, period_last, files, int_period, period_select,
                   apply_agg_btn, period, i, tmpfiles, logs, errors, survey, hist>>
    /\ UNCHANGED rvars

\* the run is over, after line 328 or by the uncaught exception: its names are
\* dropped and the button falls back; session_state and the other widget
\* values stay
EndRun ==
    /\ pc \in {"done", "crashed"}
    /\ pc' = "idle"
    /\ apply_agg_btn' = FALSE
    /\ period' = ""
    /\ i' = 1
    /\ logs' = <<>>
    /\ errors' = <<>>
    /\ survey' = NoSurvey
    /\ ui_tabs' = <<>>
    /\ summary_view' = NoSummaryView
    /\ tab_out' = <<>>
    /\ UNCHANGED <<apply_agg, period_last, files, int_period, period_select,
                   tmpfiles, hist>>
    /\ UNCHANGED rvars

Next == Rerun \/ TmpCreate \/ LogConstruct \/ BuildSurvey \/ RenderTabs \/ EndRun

Spec == Init /\ [][Next]_vars

\* ------------------------------------------- spectra_to_rows on its own
ReshapeInit ==
    /\ AppInit
    /\ df \in FlatTables \cup MultiTables \cup {None}
    /\ pos_names \in PosLists
    /\ out1 = None
    /\ out2 = None
    /\ rpc = "in"

\* tidy = spectra_to_rows(df, pos_names)
Reshape ==
    /\ rpc = "in"
    /\ out1' = SpectraToRows(df, pos_names)
    /\ rpc' = "once"
    /\ UNCHANGED <<df, pos_names, out2>>
    /\ UNCHANGED appvars

\* spectra_to_rows(tidy, pos_names), when the first call returned
ReshapeAgain ==
    /\ rpc = "once"
    /\ out1.kind # "raise"
    /\ out2' = SpectraToRows(out1, pos_names)
    /\ rpc' = "twice"
    /\ UNCHANGED <<df, pos_names, out1>>
    /\ UNCHANGED appvars

ReshapeNext == Reshape \/ ReshapeAgain

SpecReshape == ReshapeInit /\ [][ReshapeNext]_vars

\* ================================================================ claims
EntryPcs == {"start", "stopped", "idle"}

Failing == {j \in 1..Len(files) : ~files[j].ok}

Parsed == {j \in 1..Len(files) : files[j].ok}

\* C1 (as claimed): in every run whose period string differs from the stored
\* period_last, apply_agg is false and period_last is the new period string
\* once the sidebar has run, whatever the other inputs of the run are.
C1_ResetWhateverInputs ==
    [][(pc \in EntryPcs /\ pc' = "tmp" /\ period' # period_last)
          => (apply_agg' = FALSE /\ period_last' = period')]_vars

\* C1 (amended): in every run whose period string differs from the stored
\* period_last, period_last becomes the new period string and apply_agg
\* becomes the value of the apply button of that run: false unless the button
\* was pressed in the same run, for every prior value of apply_agg.
C1_ResetThenButton ==
    [][(pc \in EntryPcs /\ pc' = "tmp" /\ period' # period_last)
          => (period_last' = period' /\ apply_agg' = apply_agg_btn')]_vars

\* a run that found apply_agg true, changed the period and had the button pressed
C1_Witness ==
    /\ pc = "tmp"
    /\ hist.changed /\ hist.was_agg
    /\ apply_agg_btn /\ apply_agg
    /\ period_last = period

\* C2: apply_agg and period_last change only in the sidebar of a run that got
\* past st.stop(), and only when the period string differs from period_last or
\* the button is pressed; the button sets apply_agg, an unchanged period string
\* leaves period_last alone.  Nothing in the rest of the run writes them.
C2_OnlyTwoTriggers ==
    [][/\ (apply_agg' # apply_agg \/ period_last' # period_last)
            => /\ pc \in EntryPcs /\ pc' = "tmp"
               /\ (period' # period_last \/ apply_agg_btn')
       /\ (pc \in EntryPcs /\ pc' = "tmp" /\ apply_agg_btn') => apply_agg'
       /\ (pc \in EntryPcs /\ pc' = "tmp" /\ period' = period_last /\ ~apply_agg_btn')
            => (apply_agg' = apply_agg /\ period_last' = period_last)]_vars

\* a finished run with a parse failure, a survey failure and an aggregation
\* failure, no period change and no button: apply_agg is still true
C2_Witness ==
    /\ pc = "done"
    /\ ~hist.changed /\ ~apply_agg_btn
    /\ hist.was_agg /\ apply_agg
    /\ Failing # {}
    /\ survey.summary_df = None /\ survey.built
    /\ \E k \in 1..Len(tab_out) : tab_out[k].view = "agg_error"

\* C3: a position tab labelled "Integrated Survey Data" was aggregated with the
\* period string of its own run, which is period_last, and apply was pressed in
\* that run or in an earlier one with no change of the period string since;
\* while apply has not been pressed since the last change, every tab that shows
\* a table shows "Raw Survey Data".
C3_NoStaleAggregate ==
    \A k \in 1..Len(tab_out) :
        /\ tab_out[k].subheader = Integrated
             => /\ tab_out[k].t = period
                /\ period = PeriodString(int_period, period_select)
                /\ period = period_last
                /\ hist.pressed
        /\ (~hist.pressed /\ tab_out[k].view = "shown")
             => tab_out[k].subheader = RawData
        /\ ~hist.pressed => tab_out[k].view # "agg_error"

\* an aggregated tab in a run where the button was not pressed: the press was
\* in an earlier run, at the same non-default period
C3_Witness ==
    /\ pc = "done"
    /\ ~apply_agg_btn
    /\ period # PeriodString(DefaultIntPeriod, DefaultUnit)
    /\ \E k \in 1..Len(tab_out) : tab_out[k].subheader = Integrated

\* C4: when every upload parses, the tabs are Summary and then one per upload,
\* in upload order, the j-th position tab labelled with the j-th upload's name
\* and showing the Log built from the j-th upload.
C4_OneTabPerUpload ==
    (pc = "done" /\ Failing = {})
        => /\ Len(ui_tabs) = Len(files) + 1
           /\ \A j \in 1..Len(files) : ui_tabs[j + 1] = files[j].name
           /\ Len(tab_out) = Len(files)
           /\ \A j \in 1..Len(files) : /\ tab_out[j].label = files[j].name
                                       /\ tab_out[j].log = j

\* C5: an upload whose Log construction raises has its error message, no Log of
\* it is in the mapping or handed to the survey, no tab of the tab list stands
\* for it (and unless a same-named upload parsed, its name is neither a key nor
\* a tab label); every upload of the batch was still tried.
C5_FailedUploadExcluded ==
    pc \in {"done", "crashed"} =>
        /\ i = Len(files) + 1
        /\ Len(errors) = Cardinality(Failing)
        /\ \A j \in Parsed : DictHas(logs, files[j].name)
        /\ ui_tabs = <<"Summary">> \o DictKeys(logs)
        /\ \A j \in Failing :
            /\ [kind |-> "load_failed", name |-> files[j].name] \in Range(errors)
            /\ \A k \in 1..Len(logs) : logs[k].log # j
            /\ \A k \in 1..Len(survey.logs) : survey.logs[k].log # j
            /\ \A k \in 2..Len(ui_tabs) : DictGet(logs, ui_tabs[k]) # j
            /\ (\A m \in Parsed : files[m].name # files[j].name)
                 => /\ ~DictHas(logs, files[j].name)
                    /\ ~DictHas(survey.logs, files[j].name)
                    /\ files[j].name \notin Range(ui_tabs)

\* the first upload failed, the second (another name) parsed and reached the survey
C5_Witness ==
    /\ pc = "done"
    /\ Len(files) = 2
    /\ ~files[1].ok /\ files[2].ok
    /\ files[1].name # files[2].name
    /\ Len(survey.logs) = 1
    /\ Len(errors) = 1

\* C6: when some uploads fail to parse and others parse, every parsed upload
\* has a position tab with its own name in which its own Log is rendered, and
\* no tab reports a missing Log.
C6_FailureIsolation ==
    (pc = "done" /\ Failing # {} /\ Parsed # {})
        => /\ \A j \in Parsed :
                \E k \in 1..Len(tab_out) : /\ tab_out[k].label = files[j].name
                                           /\ tab_out[k].log = j
                                           /\ tab_out[k].view # "notfound"
           /\ \A k \in 1..Len(tab_out) : tab_out[k].view # "notfound"

\* C7: the temporary file of an upload exists exactly while PyNS.Log is about
\* to be called on it; never more than one exists, and none once the loop is over.
C7_TempFileScoped ==
    /\ Cardinality(tmpfiles) <= 1
    /\ pc = "construct" => tmpfiles = {i}
    /\ pc # "construct" => tmpfiles = {}

\* the loop is over after a constructor that raised and one that returned
C7_Witness ==
    /\ pc = "survey"
    /\ Failing # {} /\ Parsed # {}
    /\ tmpfiles = {}

\* C8: when a survey step raised, summary_error is its message, the three
\* tables are None and the Summary tab shows the warning and nothing else;
\* with no Log, no Survey is built and the message is the fixed one.
C8_SurveyFailureClearsAll ==
    (pc = "done" /\ survey.summary_error # "")
        => /\ survey.summary_df = None
           /\ survey.leq_spec_df = None
           /\ survey.lmax_spec_df = None
           /\ ~summary_view.table
           /\ summary_view.warning = "Summary unavailable: " \o survey.summary_error
           /\ summary_view.charts = <<>>
           /\ Len(logs) = 0 => (~survey.built /\ survey.summary_error = NoLogsMsg)

\* C9: for a two-level table of B bands, R rows and at most P*B columns the
\* output is K blocks of R rows, K = P with exactly P*B columns and
\* floor(columns / B) with fewer; the k-th block is tagged pos_names[k] and
\* holds columns (k-1)*B+1 .. k*B under their band labels; later positions
\* are absent.
C9_BlockCount ==
    (rpc \in {"once", "twice"} /\ df.kind = "multi")
        => LET B == Cardinality({df.cols[c][2] : c \in 1..Len(df.cols)})
               R == Len(df.data)
               P == Len(pos_names)
               K == IF Len(df.cols) = P * B THEN P ELSE Len(df.cols) \div B
           IN  Len(df.cols) <= P * B
                 => /\ out1.kind = "flat"
                    /\ out1.cols = <<"Position", "Period">>
                                     \o [c \in 1..B |-> Str(df.cols[c][2])]
                    /\ Len(out1.data) = K * R
                    /\ \A k \in 1..K : \A r \in 1..R :
                         /\ out1.data[(k - 1) * R + r]
                              = <<pos_names[k], df.index[r]>>
                                  \o [c \in 1..B |-> df.data[r][(k - 1) * B + c]]
                         /\ \A c \in 1..B :
                              Str(df.cols[(k - 1) * B + c][2]) = out1.cols[c + 2]

\* two positions, two bands, four columns, two rows: four rows out
C9_Witness ==
    /\ rpc = "once"
    /\ df.kind = "multi"
    /\ Len(pos_names) = 2 /\ pos_names[1] # pos_names[2]
    /\ Len(df.cols) = 4 /\ df.cols[1][2] # df.cols[2][2] /\ df.cols[3][2] = df.cols[1][2]
    /\ Len(df.data) = 2
    /\ Len(out1.data) = 4

\* C10: on a flat table, spectra_to_rows applied twice gives what it gives
\* applied once: the same columns and the same rows.
C10_FlatIdempotent ==
    (rpc = "twice" /\ df.kind = "flat")
        => /\ out2.kind = out1.kind
           /\ out2.cols = out1.cols
           /\ out2.data = out1.data
====
